---- MODULE Spec2Model ----
(***************************************************************************)
(* Model of SingleLinkedList<Type> (src/main.cpp): a heap of nodes, a few  *)
(* list objects with their sentinel head_ and size_, and one action per    *)
(* public operation.  A failing value copy (ThrowOnCopy) and an exhausted  *)
(* heap (std::bad_alloc) are inputs of the operations that allocate.       *)
(***************************************************************************)
EXTENDS Integers, Sequences, FiniteSets, TLC

\* ---- bounds ----
NumNodes == 3      \* heap cells available to operator new
MaxVal   == 2      \* element values are 1..MaxVal
MaxInit  == 2      \* longest initializer list

Nodes  == 1..NumNodes
Values == 1..MaxVal

\* The list objects: the two operands a and b that the operations relate
\* (this and other, lhs and rhs), and the two locals that live only inside one
\* call: `SingleLinkedList tmp` of the constructors and `tmp_othrs` of operator=.
Lists    == {1, 2}
Tmp      == 3
TmpOthrs == 4
AllLists == Lists \cup {Tmp, TmpOthrs}

nullptr == 0
\* Address of the sentinel head_ of list l (a Node that is a member of the list).
Sentinel(l) == 0 - l

VARIABLES head_, size_, alive, value, next_node, allocated, fault,
          deletion_counter, last

vars == <<head_, size_, alive, value, next_node, allocated, fault,
          deletion_counter, last>>

\* The whole memory as one record; the operations below map records to records.
\* deletion_counter counts the nodes destroyed by the operation in progress (the
\* counter of the tests' DeletionSpy), so every operation starts it at 0.
Cur == [head_ |-> head_, size_ |-> size_, alive |-> alive, value |-> value,
        next_node |-> next_node, allocated |-> allocated, fault |-> fault,
        deletion_counter |-> 0]

\* p->next_node, for p a heap node or a sentinel
NextOf(st, p) == IF p < 0 THEN st.head_[0 - p] ELSE st.next_node[p]

SetNext(st, p, q) ==
  IF p < 0 THEN [st EXCEPT !.head_[0 - p] = q] ELSE [st EXCEPT !.next_node[p] = q]

\* ---- traversal: follow next_node from a pointer until nullptr ----
RECURSIVE Walk(_, _, _)
Walk(st, p, fuel) ==
  IF p = nullptr \/ fuel = 0 THEN <<>>
  ELSE <<p>> \o Walk(st, st.next_node[p], fuel - 1)

\* begin() .. end(): the nodes of list l in order
Chain(st, l) == Walk(st, st.head_[l], NumNodes + 1)

\* the values *it for it in begin() .. end()
Elems(st, l) == LET c == Chain(st, l) IN [i \in 1..Len(c) |-> st.value[c[i]]]

Range(s) == {s[i] : i \in 1..Len(s)}

GetSize(st, l) == st.size_[l]

IsEmpty(st, l) == st.size_[l] = 0

\* ---- iterators: the node_ an iterator holds ----
begin(st, l) == st.head_[l]

end(st, l) == nullptr

before_begin(st, l) == Sentinel(l)

cbefore_begin(st, l) == Sentinel(l)

\* operator++ that hands back the iterator as it was before the step
Advance_Stays(st, it) == it

\* ++it: node_ = node_->next_node
Advance(st, it) == NextOf(st, it)

\* ---- operator new / delete ----
FreeNodes(st) == {n \in Nodes : ~st.allocated[n]}

\* The allocator is first-fit: it returns the lowest free cell.  Cells are
\* reused after delete, so a list's nodes occur in every address order.
Alloc(st) == CHOOSE n \in FreeNodes(st) : \A m \in FreeNodes(st) : n <= m

\* new Node(val, next) that leaves next_node at its default, nullptr
NewNode_DropsNext(st, val, next, fail) ==
  IF FreeNodes(st) = {} \/ fail
  THEN [st |-> st, ptr |-> nullptr, threw |-> TRUE]
  ELSE LET n == Alloc(st) IN
       [st |-> [st EXCEPT !.allocated[n] = TRUE, !.value[n] = val,
                          !.next_node[n] = nullptr],
        ptr |-> n, threw |-> FALSE]

\* new Node(val, next): throws when the heap is exhausted or when the copy of
\* val throws (the cell is then given back by the new-expression).
NewNode(st, val, next, fail) ==
  IF FreeNodes(st) = {} \/ fail
  THEN [st |-> st, ptr |-> nullptr, threw |-> TRUE]
  ELSE LET n == Alloc(st) IN
       [st |-> [st EXCEPT !.allocated[n] = TRUE, !.value[n] = val,
                          !.next_node[n] = next],
        ptr |-> n, threw |-> FALSE]

\* delete that gives nothing back
Delete_Leaks(st, p) ==
  IF p \in Nodes /\ st.allocated[p]
  THEN [st EXCEPT !.deletion_counter = @ + 1]
  ELSE [st EXCEPT !.fault = TRUE]

\* delete p: releasing a cell that is not an allocated heap node is a fault.
Delete(st, p) ==
  IF p \in Nodes /\ st.allocated[p]
  THEN [st EXCEPT !.allocated[p] = FALSE, !.value[p] = 0, !.next_node[p] = nullptr,
                  !.deletion_counter = @ + 1]
  ELSE [st EXCEPT !.fault = TRUE]

\* ---- member functions ----
DefaultCtor(st, l) ==
  [st EXCEPT !.head_[l] = nullptr, !.size_[l] = 0, !.alive[l] = TRUE]

\* PushFront that forgets ++size_
PushFront_KeepsSize(st, l, val, fail) ==
  LET r == NewNode(st, val, st.head_[l], fail) IN
  IF r.threw THEN [st |-> st, threw |-> TRUE]
  ELSE [st |-> [r.st EXCEPT !.head_[l] = r.ptr], threw |-> FALSE]

PushFront(st, l, val, fail) ==
  LET r == NewNode(st, val, st.head_[l], fail) IN
  IF r.threw THEN [st |-> st, threw |-> TRUE]
  ELSE [st |-> [r.st EXCEPT !.head_[l] = r.ptr, !.size_[l] = @ + 1],
        threw |-> FALSE]

\* InsertAfter that links a raw node in before the value is copied into it
InsertAfter_LinkBeforeCopy(st, l, pos, val, fail) ==
  IF FreeNodes(st) = {} THEN [st |-> st, ret |-> nullptr, threw |-> TRUE]
  ELSE LET n == Alloc(st)
           s1 == [st EXCEPT !.allocated[n] = TRUE, !.next_node[n] = NextOf(st, pos)]
           s2 == [SetNext(s1, pos, n) EXCEPT !.size_[l] = @ + 1]
       IN IF fail THEN [st |-> s2, ret |-> nullptr, threw |-> TRUE]
          ELSE [st |-> [s2 EXCEPT !.value[n] = val], ret |-> n, threw |-> FALSE]

InsertAfter(st, l, pos, val, fail) ==
  LET before == pos
      r == NewNode(st, val, NextOf(st, before), fail)
  IN IF r.threw THEN [st |-> st, ret |-> nullptr, threw |-> TRUE]
     ELSE LET s1 == SetNext(r.st, before, r.ptr)
              s2 == [s1 EXCEPT !.size_[l] = @ + 1]
          IN [st |-> s2, ret |-> NextOf(s2, before), threw |-> FALSE]

\* PopFront that relinks the sentinel to nullptr instead of next_item
PopFront_DropsRest(st, l) ==
  IF st.size_[l] = 0 THEN st
  ELSE LET s1 == Delete(st, st.head_[l])
           s2 == [s1 EXCEPT !.head_[l] = nullptr]
       IN [s2 EXCEPT !.size_[l] = @ - 1]

\* PopFront without the early return on size_ == 0
PopFront_NoEmptyCheck(st, l) ==
  IF st.size_[l] = 0 THEN [st EXCEPT !.size_[l] = @ - 1]
  ELSE LET next_item == NextOf(st, st.head_[l])
           s1 == Delete(st, st.head_[l])
           s2 == [s1 EXCEPT !.head_[l] = next_item]
       IN [s2 EXCEPT !.size_[l] = @ - 1]

PopFront(st, l) ==
  IF st.size_[l] = 0 THEN st
  ELSE LET next_item == NextOf(st, st.head_[l])
           s1 == Delete(st, st.head_[l])
           s2 == [s1 EXCEPT !.head_[l] = next_item]
       IN [s2 EXCEPT !.size_[l] = @ - 1]

\* EraseAfter that returns the iterator it was given
EraseAfter_ReturnsPos(st, l, pos) ==
  LET before == pos
      after_item == NextOf(st, NextOf(st, before))
      s1 == Delete(st, NextOf(st, before))
      s2 == SetNext(s1, before, after_item)
      s3 == [s2 EXCEPT !.size_[l] = @ - 1]
  IN [st |-> s3, ret |-> IF before < 0 THEN nullptr ELSE before]

EraseAfter(st, l, pos) ==
  LET before == pos
      after_item == NextOf(st, NextOf(st, before))
      s1 == Delete(st, NextOf(st, before))
      s2 == SetNext(s1, before, after_item)
      s3 == [s2 EXCEPT !.size_[l] = @ - 1]
  IN [st |-> s3, ret |-> NextOf(s3, before)]

RECURSIVE ClearLoop(_, _, _)
ClearLoop(st, l, fuel) ==
  IF st.head_[l] = nullptr \/ fuel = 0 THEN st
  ELSE ClearLoop(PopFront(st, l), l, fuel - 1)

\* Clear with `if` in place of `while`: one PopFront at most
Clear_PopsOnce(st, l) == ClearLoop(st, l, 1)

Clear(st, l) == ClearLoop(st, l, NumNodes + 1)

Dtor(st, l) == [Clear(st, l) EXCEPT !.alive[l] = FALSE]

\* swap that assigns b's state to a and leaves b as it is
swap_Assigns(st, a, b) ==
  [st EXCEPT !.head_[a] = st.head_[b], !.size_[a] = st.size_[b]]

\* swap that exchanges the head links only
swap_HeadOnly(st, a, b) ==
  [st EXCEPT !.head_[a] = st.head_[b], !.head_[b] = st.head_[a]]

swap(st, a, b) ==
  [st EXCEPT !.head_[a] = st.head_[b], !.head_[b] = st.head_[a],
             !.size_[a] = st.size_[b], !.size_[b] = st.size_[a]]

\* The loop of InsetAfterListItems; the failAt-th value copy throws (0: none).
RECURSIVE InsertLoop(_, _, _, _, _, _)
InsertLoop(st, tmp, pos, items, i, failAt) ==
  IF i > Len(items) THEN [st |-> st, threw |-> FALSE]
  ELSE LET r == InsertAfter(st, tmp, pos, items[i], failAt = i) IN
       IF r.threw THEN [st |-> r.st, threw |-> TRUE]
       ELSE InsertLoop(r.st, tmp, r.ret, items, i + 1, failAt)

\* InsetAfterListItems that does not move pos: every item goes to the front
InsetAfterListItems_AtFront(st, tmp, items, failAt) ==
  LET RECURSIVE Loop(_, _)
      Loop(s, i) ==
        IF i > Len(items) THEN [st |-> s, threw |-> FALSE]
        ELSE LET r == InsertAfter(s, tmp, Sentinel(tmp), items[i], failAt = i) IN
             IF r.threw THEN [st |-> r.st, threw |-> TRUE]
             ELSE Loop(r.st, i + 1)
  IN Loop(st, 1)

InsetAfterListItems(st, tmp, items, failAt) ==
  InsertLoop(st, tmp, Sentinel(tmp), items, 1, failAt)

\* Both converting constructors: members get their default initializers, the
\* items are inserted into the local tmp, then swapped in; tmp is destroyed on
\* both the normal and the exceptional path, and a constructor that throws
\* leaves no object behind.
BuildFrom(st, this, tmp, items, failAt) ==
  LET s0 == [st EXCEPT !.head_[this] = nullptr, !.size_[this] = 0]
      s1 == DefaultCtor(s0, tmp)
      r  == InsetAfterListItems(s1, tmp, items, failAt)
  IN IF r.threw THEN [st |-> Dtor(r.st, tmp), threw |-> TRUE]
     ELSE [st |-> [Dtor(swap(r.st, this, tmp), tmp) EXCEPT !.alive[this] = TRUE],
           threw |-> FALSE]

InitListCtor(st, this, values, failAt) ==
  BuildFrom(st, this, Tmp, values, failAt)

\* copy constructor that copies the head link and the size (a shallow copy)
CopyCtor_Shallow(st, this, other, failAt) ==
  [st |-> [st EXCEPT !.head_[this] = st.head_[other],
                     !.size_[this] = st.size_[other], !.alive[this] = TRUE],
   threw |-> FALSE]

CopyCtor(st, this, other, failAt) ==
  BuildFrom(st, this, Tmp, Elems(st, other), failAt)

\* operator= that copies rhs's head link and size (the two lists share nodes)
CopyAssign_Shallow(st, this, rhs, failAt) ==
  [st |-> [st EXCEPT !.head_[this] = st.head_[rhs], !.size_[this] = st.size_[rhs]],
   threw |-> FALSE]

\* operator= that empties *this and copies rhs into it in place
CopyAssign_InPlace(st, this, rhs, failAt) ==
  IF this = rhs THEN [st |-> st, threw |-> FALSE]
  ELSE LET r == InsetAfterListItems(Clear(st, this), this, Elems(st, rhs), failAt)
       IN [st |-> r.st, threw |-> r.threw]

\* operator= without the test this == &rhs: copy and swap in every case
CopyAssign_NoSelfCheck(st, this, rhs, failAt) ==
  LET r == CopyCtor(st, TmpOthrs, rhs, failAt) IN
  IF r.threw THEN [st |-> r.st, threw |-> TRUE]
  ELSE [st |-> Dtor(swap(r.st, this, TmpOthrs), TmpOthrs), threw |-> FALSE]

CopyAssign(st, this, rhs, failAt) ==
  IF this = rhs THEN [st |-> st, threw |-> FALSE]
  ELSE LET r == CopyCtor(st, TmpOthrs, rhs, failAt) IN
       IF r.threw THEN [st |-> r.st, threw |-> TRUE]
       ELSE [st |-> Dtor(swap(r.st, this, TmpOthrs), TmpOthrs), threw |-> FALSE]

\* ---- operator== : std::equal(lhs.begin(), lhs.end(), rhs.begin()) ----
\* The three-iterator std::equal stops only at lhs.end().  Reading through
\* rhs's end iterator (a null node_) is undefined: any outcome is possible.
RECURSIVE StdEqual(_, _, _, _)
StdEqual(st, first1, first2, fuel) ==
  IF first1 = nullptr \/ fuel = 0 THEN {"true"}
  ELSE IF first2 = nullptr THEN {"true", "false", "crash"}
  ELSE IF st.value[first1] # st.value[first2] THEN {"false"}
  ELSE StdEqual(st, st.next_node[first1], st.next_node[first2], fuel - 1)

OperatorEq(st, lhs, rhs) == StdEqual(st, st.head_[lhs], st.head_[rhs], NumNodes + 1)

\* ---- operator< : std::lexicographical_compare over both ranges ----
\* std::lexicographical_compare that ignores which range ran out first
StdLexCompare_IgnoresLength(st, first1, first2, fuel) ==
  LET RECURSIVE Cmp(_, _, _)
      Cmp(f1, f2, k) ==
        IF f1 = nullptr \/ f2 = nullptr \/ k = 0 THEN FALSE
        ELSE IF st.value[f1] < st.value[f2] THEN TRUE
        ELSE IF st.value[f2] < st.value[f1] THEN FALSE
        ELSE Cmp(st.next_node[f1], st.next_node[f2], k - 1)
  IN Cmp(first1, first2, fuel)

\* The loop runs while both ranges have elements and returns at the first pair
\* that differs; after it, lhs is less exactly if it ran out and rhs did not.
RECURSIVE StdLexCompare(_, _, _, _)
StdLexCompare(st, first1, first2, fuel) ==
  IF first1 = nullptr \/ first2 = nullptr \/ fuel = 0
  THEN first1 = nullptr /\ first2 # nullptr
  ELSE IF st.value[first1] < st.value[first2] THEN TRUE
  ELSE IF st.value[first2] < st.value[first1] THEN FALSE
  ELSE StdLexCompare(st, st.next_node[first1], st.next_node[first2], fuel - 1)

OperatorLess(st, lhs, rhs) ==
  StdLexCompare(st, st.head_[lhs], st.head_[rhs], NumNodes + 1)

\* what a bool-returning operator hands back, as recorded in last.res
Bool(b) == IF b THEN "true" ELSE "false"

\* ---- the derived comparison operators ----
\* operator!= returns the opposite of what its call of operator== returns; when
\* that call is undefined, so is this one.
OperatorNe(st, lhs, rhs) ==
  {IF r = "true" THEN "false" ELSE IF r = "false" THEN "true" ELSE r :
     r \in OperatorEq(st, lhs, rhs)}

OperatorLe(st, lhs, rhs) == IF OperatorLess(st, rhs, lhs) THEN FALSE ELSE TRUE

OperatorGt(st, lhs, rhs) == IF OperatorLess(st, rhs, lhs) THEN TRUE ELSE FALSE

OperatorGe(st, lhs, rhs) == IF OperatorGt(st, rhs, lhs) THEN FALSE ELSE TRUE

\* ---- calls outside the contract ----
\* --size_ on a size_t: 0 wraps to 2^64 - 1, written here as the two's
\* complement reading of that bit pattern because it exceeds the model
\* checker's integers.
SIZE_MAX == 0 - 1

SizeDec(n) == IF n = 0 THEN SIZE_MAX ELSE n - 1

\* EraseAfter(pos) with assert compiled in, where pos has no successor.  For
\* pos == end() the assertion pos.node_ != nullptr stops the call.  For any
\* other pos it passes, and before->next_node->next_node reads through a null
\* pointer, which is undefined: the process crashes there, or the read yields
\* some pointer, delete of the null successor does nothing, and the links and
\* size_ are written.
EraseAfterNoSuccessor(st, l, pos) ==
  IF pos = nullptr THEN {[st |-> st, ret |-> nullptr, res |-> "assert"]}
  ELSE {[st |-> st, ret |-> nullptr, res |-> "crash"]} \cup
       {[st |-> [SetNext(st, pos, after_item) EXCEPT !.size_[l] = SizeDec(@)],
         ret |-> after_item, res |-> "garbage"] :
          after_item \in Nodes \cup {nullptr}}

\* ++it on an end iterator: operator++ has no assertion, and node_->next_node
\* reads through the null node_.
AdvanceEnd(st) ==
  {[ret |-> nullptr, res |-> "crash"]} \cup
  {[ret |-> p, res |-> "garbage"] : p \in Nodes \cup {nullptr}}

\* *it on an end iterator: operator* has no assertion either.
DerefEnd(st) ==
  {[val |-> 0, res |-> "crash"]} \cup {[val |-> v, res |-> "garbage"] : v \in Values}

\* PopFront() on an empty list: with assert compiled in, assert(size_ != 0)
\* stops the call; with NDEBUG the body runs.
PopFrontEmpty(st, l, build) ==
  IF build = "debug" THEN [st |-> st, res |-> "assert"]
  ELSE [st |-> PopFront(st, l), res |-> "returned"]

\* ---- the state machine ----
\* The last call, until the caller discards its result: which operation, on
\* which list, with which arguments, and what it returned or whether it threw
\* (vals: the initializer list of a constructor call that returned; build: for
\* a call outside the contract, whether assert is compiled in).
NoOp == [op |-> "none", l |-> 0, other |-> 0, pos |-> 0, val |-> 0, vals |-> <<>>,
         ret |-> 0, threw |-> FALSE, res |-> "none", build |-> "any"]

Init ==
  /\ head_ = [l \in AllLists |-> nullptr]
  /\ size_ = [l \in AllLists |-> 0]
  /\ alive = [l \in AllLists |-> FALSE]
  /\ value = [n \in Nodes |-> 0]
  /\ next_node = [n \in Nodes |-> nullptr]
  /\ allocated = [n \in Nodes |-> FALSE]
  /\ fault = FALSE
  /\ deletion_counter = 0
  /\ last = NoOp

Commit(st) ==
  /\ head_' = st.head_
  /\ size_' = st.size_
  /\ alive' = st.alive
  /\ value' = st.value
  /\ next_node' = st.next_node
  /\ allocated' = st.allocated
  /\ fault' = st.fault
  /\ deletion_counter' = st.deletion_counter

\* positions of list l that may be passed to InsertAfter: before_begin() and
\* every element
Positions(st, l) == {Sentinel(l)} \cup Range(Chain(st, l))

InitLists == UNION {[1..n -> Values] : n \in 0..MaxInit}

DoDefaultCtor ==
  /\ last = NoOp
  /\ \E l \in Lists :
       /\ ~alive[l]
       /\ Commit(DefaultCtor(Cur, l))
       /\ last' = [NoOp EXCEPT !.op = "DefaultCtor", !.l = l]

DoInitListCtor ==
  /\ last = NoOp
  /\ \E l \in Lists, values \in InitLists :
       \E failAt \in 0..Len(values) :
         /\ ~alive[l]
         /\ LET r == InitListCtor(Cur, l, values, failAt) IN
            /\ Commit(r.st)
            /\ last' = [NoOp EXCEPT !.op = "InitListCtor", !.l = l,
                                    !.vals = IF r.threw THEN <<>> ELSE values,
                                    !.threw = r.threw]

DoCopyCtor ==
  /\ last = NoOp
  /\ \E l \in Lists, other \in Lists :
       \E failAt \in 0..Len(Chain(Cur, other)) :
         /\ ~alive[l] /\ alive[other]
         /\ LET r == CopyCtor(Cur, l, other, failAt) IN
            /\ Commit(r.st)
            /\ last' = [NoOp EXCEPT !.op = "CopyCtor", !.l = l, !.other = other,
                                    !.threw = r.threw]

DoDtor ==
  /\ last = NoOp
  /\ \E l \in Lists :
       /\ alive[l]
       /\ Commit(Dtor(Cur, l))
       /\ last' = [NoOp EXCEPT !.op = "Dtor", !.l = l]

DoPushFront ==
  /\ last = NoOp
  /\ \E l \in Lists, val \in Values, fail \in BOOLEAN :
       /\ alive[l]
       /\ LET r == PushFront(Cur, l, val, fail) IN
          /\ Commit(r.st)
          /\ last' = [NoOp EXCEPT !.op = "PushFront", !.l = l, !.val = val,
                                  !.threw = r.threw]

DoPopFront ==
  /\ last = NoOp
  /\ \E l \in Lists :
       /\ alive[l] /\ size_[l] # 0
       /\ Commit(PopFront(Cur, l))
       /\ last' = [NoOp EXCEPT !.op = "PopFront", !.l = l]

DoInsertAfter ==
  /\ last = NoOp
  /\ \E l \in Lists, val \in Values, fail \in BOOLEAN :
       \E pos \in Positions(Cur, l) :
         /\ alive[l]
         /\ LET r == InsertAfter(Cur, l, pos, val, fail) IN
            /\ Commit(r.st)
            /\ last' = [NoOp EXCEPT !.op = "InsertAfter", !.l = l, !.pos = pos,
                                    !.val = val, !.ret = r.ret, !.threw = r.threw]

DoEraseAfter ==
  /\ last = NoOp
  /\ \E l \in Lists :
       \E pos \in Positions(Cur, l) :
         /\ alive[l] /\ NextOf(Cur, pos) # nullptr
         /\ LET r == EraseAfter(Cur, l, pos) IN
            /\ Commit(r.st)
            /\ last' = [NoOp EXCEPT !.op = "EraseAfter", !.l = l, !.pos = pos,
                                    !.ret = r.ret]

DoClear ==
  /\ last = NoOp
  /\ \E l \in Lists :
       /\ alive[l]
       /\ Commit(Clear(Cur, l))
       /\ last' = [NoOp EXCEPT !.op = "Clear", !.l = l]

DoSwap ==
  /\ last = NoOp
  /\ \E l \in Lists, other \in Lists :
       /\ alive[l] /\ alive[other]
       /\ Commit(swap(Cur, l, other))
       /\ last' = [NoOp EXCEPT !.op = "swap", !.l = l, !.other = other]

DoCopyAssign ==
  /\ last = NoOp
  /\ \E l \in Lists, rhs \in Lists :
       \E failAt \in 0..Len(Chain(Cur, rhs)) :
         /\ alive[l] /\ alive[rhs]
         /\ LET r == CopyAssign(Cur, l, rhs, failAt) IN
            /\ Commit(r.st)
            /\ last' = [NoOp EXCEPT !.op = "CopyAssign", !.l = l, !.other = rhs,
                                    !.threw = r.threw]

DoOperatorEq ==
  /\ last = NoOp
  /\ \E lhs \in Lists, rhs \in Lists :
       \E res \in OperatorEq(Cur, lhs, rhs) :
         /\ alive[lhs] /\ alive[rhs]
         /\ Commit(Cur)
         /\ last' = [NoOp EXCEPT !.op = "operator==", !.l = lhs, !.other = rhs,
                                 !.res = res]

DoPopFrontEmpty ==
  /\ last = NoOp
  /\ \E l \in Lists, build \in {"debug", "NDEBUG"} :
       /\ alive[l] /\ size_[l] = 0
       /\ LET r == PopFrontEmpty(Cur, l, build) IN
          /\ Commit(r.st)
          /\ last' = [NoOp EXCEPT !.op = "PopFront", !.l = l, !.res = r.res,
                                  !.build = build]

DoEraseAfterNoSuccessor ==
  /\ last = NoOp
  /\ \E l \in Lists :
       \E pos \in Positions(Cur, l) \cup {end(Cur, l)} :
         \E r \in EraseAfterNoSuccessor(Cur, l, pos) :
           /\ alive[l]
           /\ IF pos = nullptr THEN TRUE ELSE NextOf(Cur, pos) = nullptr
           /\ Commit(r.st)
           /\ last' = [NoOp EXCEPT !.op = "EraseAfter", !.l = l, !.pos = pos,
                                   !.ret = r.ret, !.res = r.res, !.build = "debug"]

DoAdvanceEnd ==
  /\ last = NoOp
  /\ \E l \in Lists :
       \E r \in AdvanceEnd(Cur) :
         /\ alive[l]
         /\ Commit(Cur)
         /\ last' = [NoOp EXCEPT !.op = "operator++", !.l = l, !.pos = end(Cur, l),
                                 !.ret = r.ret, !.res = r.res, !.build = "debug"]

DoDerefEnd ==
  /\ last = NoOp
  /\ \E l \in Lists :
       \E r \in DerefEnd(Cur) :
         /\ alive[l]
         /\ Commit(Cur)
         /\ last' = [NoOp EXCEPT !.op = "operator*", !.l = l, !.pos = end(Cur, l),
                                 !.val = r.val, !.res = r.res, !.build = "debug"]

\* The process has ended (a failed assertion aborts it), or its behaviour is
\* undefined from here on.
Stopped == last.res \in {"assert", "crash", "garbage"}

DoOperatorLess ==
  /\ last = NoOp
  /\ \E lhs \in Lists, rhs \in Lists :
       /\ alive[lhs] /\ alive[rhs]
       /\ Commit(Cur)
       /\ last' = [NoOp EXCEPT !.op = "operator<", !.l = lhs, !.other = rhs,
                               !.res = Bool(OperatorLess(Cur, lhs, rhs))]

DoOperatorNe ==
  /\ last = NoOp
  /\ \E lhs \in Lists, rhs \in Lists :
       \E res \in OperatorNe(Cur, lhs, rhs) :
         /\ alive[lhs] /\ alive[rhs]
         /\ Commit(Cur)
         /\ last' = [NoOp EXCEPT !.op = "operator!=", !.l = lhs, !.other = rhs,
                                 !.res = res]

DoOperatorLe ==
  /\ last = NoOp
  /\ \E lhs \in Lists, rhs \in Lists :
       /\ alive[lhs] /\ alive[rhs]
       /\ Commit(Cur)
       /\ last' = [NoOp EXCEPT !.op = "operator<=", !.l = lhs, !.other = rhs,
                               !.res = Bool(OperatorLe(Cur, lhs, rhs))]

DoOperatorGt ==
  /\ last = NoOp
  /\ \E lhs \in Lists, rhs \in Lists :
       /\ alive[lhs] /\ alive[rhs]
       /\ Commit(Cur)
       /\ last' = [NoOp EXCEPT !.op = "operator>", !.l = lhs, !.other = rhs,
                               !.res = Bool(OperatorGt(Cur, lhs, rhs))]

DoOperatorGe ==
  /\ last = NoOp
  /\ \E lhs \in Lists, rhs \in Lists :
       /\ alive[lhs] /\ alive[rhs]
       /\ Commit(Cur)
       /\ last' = [NoOp EXCEPT !.op = "operator>=", !.l = lhs, !.other = rhs,
                               !.res = Bool(OperatorGe(Cur, lhs, rhs))]

\* The caller is done with the result of the last call: the returned iterator
\* or bool goes out of scope, and so does the deletion counter.
Discard ==
  /\ last # NoOp
  /\ ~Stopped
  /\ Commit(Cur)
  /\ last' = NoOp

Next ==
  \/ Discard
  \/ DoDefaultCtor
  \/ DoInitListCtor
  \/ DoCopyCtor
  \/ DoDtor
  \/ DoPushFront
  \/ DoPopFront
  \/ DoInsertAfter
  \/ DoEraseAfter
  \/ DoClear
  \/ DoSwap
  \/ DoCopyAssign
  \/ DoOperatorEq

Spec == Init /\ [][Next]_vars

\* The operations above and the calls outside the contract.
NextDebug ==
  \/ Next
  \/ DoPopFrontEmpty
  \/ DoEraseAfterNoSuccessor
  \/ DoAdvanceEnd
  \/ DoDerefEnd

SpecDebug == Init /\ [][NextDebug]_vars

\* The comparison operators, on lists built by the constructors and PushFront.
NextCmp ==
  \/ Discard
  \/ DoDefaultCtor
  \/ DoInitListCtor
  \/ DoDtor
  \/ DoPushFront
  \/ DoOperatorEq
  \/ DoOperatorLess
  \/ DoOperatorNe
  \/ DoOperatorLe
  \/ DoOperatorGt
  \/ DoOperatorGe

SpecCmp == Init /\ [][NextCmp]_vars

TypeOK ==
  /\ \A l \in AllLists : head_[l] \in Nodes \cup {nullptr} /\ size_[l] \in 0..NumNodes
  /\ \A n \in Nodes : next_node[n] \in Nodes \cup {nullptr} /\ value[n] \in Values \cup {0}
  /\ ~alive[Tmp] /\ ~alive[TmpOthrs]

\* ---- helpers of the properties ----
\* index of position p in chain c: 0 for before_begin()
IndexOf(c, p) == IF p < 0 THEN 0 ELSE CHOOSE i \in 1..Len(c) : c[i] = p

RemoveAt(s, i) == SubSeq(s, 1, i - 1) \o SubSeq(s, i + 1, Len(s))

InsertAt(s, i, x) == SubSeq(s, 1, i) \o <<x>> \o SubSeq(s, i + 1, Len(s))

\* list m is exactly as it was: same nodes in the same order, same values, same size
SameList(m) ==
  /\ Chain(Cur', m) = Chain(Cur, m)
  /\ Elems(Cur', m) = Elems(Cur, m)
  /\ size_'[m] = size_[m]
  /\ alive'[m] = alive[m]

\* C1: operator==(a, b) returns true if and only if a and b have the same
\* length and pairwise equal elements in order (so it is false for a strict
\* prefix and when exactly one list is empty).
C1_EqIffSameElements ==
  last.op = "operator==" =>
    (last.res = "true" <=> Elems(Cur, last.l) = Elems(Cur, last.other))

\* C2: in every reachable state GetSize() of each list is the number of nodes
\* reached from its sentinel by next links until null, and IsEmpty() is true
\* exactly when that number is 0.
C2_SizeIsChainLength ==
  \A l \in Lists : alive[l] =>
    /\ GetSize(Cur, l) = Len(Chain(Cur, l))
    /\ IsEmpty(Cur, l) <=> (Len(Chain(Cur, l)) = 0)

\* a copy assignment has thrown and left a non-empty target beside a longer source
C2_Witness ==
  /\ last.op = "CopyAssign" /\ last.threw
  /\ size_[last.l] = 1 /\ size_[last.other] = 2

\* C3: when the value copy fails in InsertAfter or PushFront, the size, the
\* elements and the nodes of every list are what they were before the call, and
\* no node of the failed call stays allocated or linked.
C3_FailedInsertChangesNothing ==
  [][(last'.op \in {"InsertAfter", "PushFront"} /\ last'.threw) =>
       /\ \A m \in Lists : SameList(m)
       /\ allocated' = allocated
       /\ next_node' = next_node
       /\ value' = value]_vars

\* InsertAfter after an element has thrown although the heap had a free cell
C3_Witness ==
  /\ last.op = "InsertAfter" /\ last.threw /\ last.pos > 0
  /\ size_[last.l] = 2 /\ FreeNodes(Cur) # {}

\* C4: copy assignment a = b either throws and leaves a (elements, size, nodes)
\* and b as they were, with nothing allocated, or makes a element-wise equal to
\* b with b's size and leaves b as it was.
C4_CopyAssignStrongGuarantee ==
  [][last'.op = "CopyAssign" =>
       IF last'.threw
       THEN (\A m \in Lists : SameList(m)) /\ allocated' = allocated
       ELSE /\ Elems(Cur', last'.l) = Elems(Cur, last'.other)
            /\ size_'[last'.l] = size_[last'.other]
            /\ SameList(last'.other)]_vars

\* a = b has thrown with b of two elements and room for only one copy
C4_Witness ==
  /\ last.op = "CopyAssign" /\ last.threw /\ last.l # last.other
  /\ size_[last.other] = 2 /\ Cardinality(FreeNodes(Cur)) = 1

\* C5: EraseAfter(pos), for pos with a successor, removes exactly the element
\* after pos, keeps every other element in place and in order, decrements the
\* size and returns the element now following pos (end() if there is none).
C5_EraseAfterRemovesSuccessor ==
  [][last'.op = "EraseAfter" =>
       LET l == last'.l
           c == Chain(Cur, l)
           i == IndexOf(c, last'.pos)
       IN /\ Chain(Cur', l) = RemoveAt(c, i + 1)
          /\ Elems(Cur', l) = RemoveAt(Elems(Cur, l), i + 1)
          /\ size_'[l] = size_[l] - 1
          /\ last'.ret = (IF i + 1 < Len(c) THEN c[i + 2] ELSE nullptr)
          /\ last'.ret = NextOf(Cur', last'.pos)]_vars

\* the middle element of three was erased: pos and the returned iterator are elements
C5_Witness ==
  /\ last.op = "EraseAfter" /\ last.pos > 0 /\ last.ret > 0
  /\ size_[last.l] = 2

\* C6: a successful InsertAfter(pos, value), pos not end(), puts the new element
\* right after pos and before pos's former successor, keeps the previous
\* elements in order, increments the size, and returns an iterator to the new
\* node, which is pos advanced once.
C6_InsertAfterPlacesElement ==
  [][(last'.op = "InsertAfter" /\ ~last'.threw) =>
       LET l == last'.l
           c == Chain(Cur, l)
           i == IndexOf(c, last'.pos)
       IN /\ last'.ret \in Nodes /\ ~allocated[last'.ret] /\ allocated'[last'.ret]
          /\ Chain(Cur', l) = InsertAt(c, i, last'.ret)
          /\ Elems(Cur', l) = InsertAt(Elems(Cur, l), i, last'.val)
          /\ size_'[l] = size_[l] + 1
          /\ last'.ret = NextOf(Cur', last'.pos)
          /\ NextOf(Cur', last'.ret) = NextOf(Cur, last'.pos)]_vars

\* an element was inserted between two elements
C6_Witness ==
  /\ last.op = "InsertAfter" /\ ~last.threw /\ last.pos > 0
  /\ NextOf(Cur, last.ret) # nullptr

\* C7: InsertAfter(before_begin(), v) and PushFront(v) on the same list give the
\* same list: v first, the former elements after it, size + 1; and the iterator
\* InsertAfter returns is begin().
C7_InsertAtFrontIsPushFront ==
  [][/\ (last'.op = "PushFront" /\ ~last'.threw) =>
          LET l == last'.l
              r == InsertAfter(Cur, l, Sentinel(l), last'.val, FALSE)
          IN /\ ~r.threw
             /\ Elems(Cur', l) = Elems(r.st, l)
             /\ Elems(Cur', l) = <<last'.val>> \o Elems(Cur, l)
             /\ size_'[l] = r.st.size_[l] /\ size_'[l] = size_[l] + 1
             /\ r.ret = r.st.head_[l]
     /\ (last'.op = "InsertAfter" /\ ~last'.threw /\ last'.pos < 0) =>
          LET l == last'.l
              r == PushFront(Cur, l, last'.val, FALSE)
          IN /\ ~r.threw
             /\ Elems(Cur', l) = Elems(r.st, l)
             /\ Elems(Cur', l) = <<last'.val>> \o Elems(Cur, l)
             /\ size_'[l] = r.st.size_[l] /\ size_'[l] = size_[l] + 1
             /\ last'.ret = head_'[l]]_vars

\* a value was pushed in front of two elements
C7_Witness ==
  /\ last.op = "PushFront" /\ ~last.threw
  /\ size_[last.l] = 3

\* C8: PushFront(v) followed by PopFront() restores the size and the elements,
\* and PopFront() on a non-empty list removes exactly the first element and
\* leaves the others in order.
C8_PushThenPopRestores ==
  [][/\ (last'.op = "PushFront" /\ ~last'.threw) =>
          LET l == last'.l
              s == PopFront(Cur', l)
          IN /\ Elems(s, l) = Elems(Cur, l)
             /\ s.size_[l] = size_[l]
     /\ last'.op = "PopFront" =>
          LET l == last'.l
          IN /\ Elems(Cur', l) = Tail(Elems(Cur, l))
             /\ Chain(Cur', l) = Tail(Chain(Cur, l))
             /\ size_'[l] = size_[l] - 1]_vars

\* the first of three elements was popped
C8_Witness ==
  /\ last.op = "PopFront"
  /\ size_[last.l] = 2 /\ Len(Elems(Cur, last.l)) = 2

\* C9: a copy-constructed list has the elements of its source in order and
\* shares no node with it, and PushFront, PopFront, InsertAfter, EraseAfter and
\* Clear on one list leave every other list's size, elements and nodes as they
\* were.
C9_CopyIsDeepAndIndependent ==
  [][/\ (last'.op = "CopyCtor" /\ ~last'.threw) =>
          /\ Elems(Cur', last'.l) = Elems(Cur, last'.other)
          /\ size_'[last'.l] = size_[last'.other]
          /\ Range(Chain(Cur', last'.l)) \cap Range(Chain(Cur', last'.other)) = {}
          /\ SameList(last'.other)
     /\ last'.op \in {"PushFront", "PopFront", "InsertAfter", "EraseAfter", "Clear"} =>
          \A m \in Lists \ {last'.l} :
            /\ SameList(m)
            /\ \A n \in Range(Chain(Cur, m)) : allocated'[n]]_vars

\* a non-empty list was copy-constructed
C9_Witness ==
  /\ last.op = "CopyCtor" /\ ~last.threw
  /\ size_[last.l] >= 1 /\ Elems(Cur, last.l) = Elems(Cur, last.other)

\* the heap nodes owned by the live lists
Owned(st) == UNION {Range(Chain(st, l)) : l \in {m \in Lists : st.alive[m]}}

\* C10: every allocated node is released exactly once: nothing is released
\* twice or while linked in a live chain, nothing stays allocated that no live
\* list owns (so nothing at all once every list is destroyed), and each
\* PopFront or EraseAfter releases exactly the one node it unlinks.
C10_NodesReleasedExactlyOnce ==
  [][LET before   == {n \in Nodes : allocated[n]}
         after    == {n \in Nodes : allocated'[n]}
         released == before \ after
         owned    == Owned(Cur')
     IN /\ ~fault'
        /\ after = owned
        /\ (\A l \in Lists : ~alive'[l]) => after = {}
        /\ released \cap owned = {}
        /\ Cardinality(released) <= deletion_counter'
        /\ last'.op \in {"PopFront", "EraseAfter"} =>
             LET unlinked == IF last'.op = "PopFront" THEN head_[last'.l]
                             ELSE NextOf(Cur, last'.pos)
             IN /\ deletion_counter' = 1
                /\ released = {unlinked}
                /\ after = before \ {unlinked}]_vars

\* the last live list was destroyed and released its two nodes
C10_Witness ==
  /\ last.op = "Dtor" /\ deletion_counter = 2
  /\ \A l \in Lists : ~alive[l]
\* s is lexicographically earlier than t: they agree on the first k elements,
\* and then s has ended and t has not, or s has the smaller element
LexLess(s, t) ==
  \E k \in 0..Len(s) :
    /\ k <= Len(t)
    /\ \A i \in 1..k : s[i] = t[i]
    /\ \/ k = Len(s) /\ k < Len(t)
       \/ k < Len(s) /\ k < Len(t) /\ s[k + 1] < t[k + 1]

\* C11: a < b is true if and only if the elements of a are lexicographically
\* earlier than those of b (a strict prefix is less, the empty list is less
\* than every non-empty list, a < a is false).
C11_LessIsLexicographic ==
  last.op = "operator<" =>
    /\ last.res \in {"true", "false"}
    /\ last.res = "true" <=> LexLess(Elems(Cur, last.l), Elems(Cur, last.other))

\* a non-empty list was found less than a longer list that it is a prefix of
C11_Witness ==
  /\ last.op = "operator<" /\ last.res = "true"
  /\ size_[last.l] = 1 /\ size_[last.other] = 2
  /\ Elems(Cur, last.l) = SubSeq(Elems(Cur, last.other), 1, 1)
\* the three operators derived from <, against operator< on the same lists
DerivedFromLessConsistent ==
  /\ last.op = "operator>=" =>
       (last.res = "true" <=> ~OperatorLess(Cur, last.l, last.other))
  /\ last.op = "operator<=" =>
       (last.res = "true" <=> ~OperatorLess(Cur, last.other, last.l))
  /\ last.op = "operator>" =>
       (last.res = "true" <=> OperatorLess(Cur, last.other, last.l))

\* C12: a >= b iff !(a < b), a <= b iff !(b < a), a > b iff b < a, and
\* a != b iff !(a == b), for all lists a and b.
C12_DerivedOperatorsConsistent ==
  /\ DerivedFromLessConsistent
  /\ last.op = "operator!=" =>
       \A r \in OperatorEq(Cur, last.l, last.other) :
         last.res = "true" <=> ~(r = "true")
\* C13: a.swap(b) exchanges the element sequences and sizes of a and b without
\* allocating, releasing or modifying a node: a then holds exactly b's nodes
\* (identities, values, order) and b holds a's, each before_begin() is still the
\* list's own sentinel, and a second swap restores both lists.
C13_SwapExchangesChains ==
  [][last'.op = "swap" =>
       LET a == last'.l
           b == last'.other
       IN /\ Chain(Cur', a) = Chain(Cur, b) /\ Chain(Cur', b) = Chain(Cur, a)
          /\ Elems(Cur', a) = Elems(Cur, b) /\ Elems(Cur', b) = Elems(Cur, a)
          /\ size_'[a] = size_[b] /\ size_'[b] = size_[a]
          /\ allocated' = allocated /\ value' = value /\ next_node' = next_node
          /\ deletion_counter' = 0 /\ alive' = alive
          /\ NextOf(Cur', Sentinel(a)) = head_[b]
          /\ NextOf(Cur', Sentinel(b)) = head_[a]
          /\ swap(Cur', a, b) = Cur]_vars

\* two different lists of two elements and of one element were swapped
C13_Witness ==
  /\ last.op = "swap" /\ last.l # last.other
  /\ size_[last.l] = 2 /\ size_[last.other] = 1
\* C14: Clear() ends after exactly GetSize() PopFront steps, each releasing one
\* node, and leaves the list empty: size 0, the sentinel's next link null,
\* begin() == end(), and every node the list owned released.
C14_ClearEmptiesList ==
  [][last'.op = "Clear" =>
       LET l == last'.l
       IN /\ deletion_counter' = GetSize(Cur, l)
          /\ size_'[l] = 0 /\ IsEmpty(Cur', l)
          /\ NextOf(Cur', Sentinel(l)) = nullptr
          /\ Chain(Cur', l) = <<>>
          /\ \A n \in Range(Chain(Cur, l)) : ~allocated'[n]
          /\ alive'[l]
          /\ ~fault']_vars

\* a list of three elements was cleared
C14_Witness ==
  /\ last.op = "Clear" /\ deletion_counter = 3
  /\ size_[last.l] = 0
\* C15: in every reachable state of every list, before_begin() (and
\* cbefore_begin()) advanced once equals begin(), which is end() for an empty
\* list and the first element otherwise; before_begin() == cbefore_begin().
C15_BeforeBeginPrecedesBegin ==
  \A l \in Lists : alive[l] =>
    /\ Advance(Cur, before_begin(Cur, l)) = begin(Cur, l)
    /\ Advance(Cur, cbefore_begin(Cur, l)) = begin(Cur, l)
    /\ before_begin(Cur, l) = cbefore_begin(Cur, l)
    /\ IsEmpty(Cur, l) => begin(Cur, l) = end(Cur, l)
    /\ ~IsEmpty(Cur, l) =>
         /\ begin(Cur, l) # end(Cur, l)
         /\ begin(Cur, l) \in Nodes /\ allocated[begin(Cur, l)]
         /\ begin(Cur, l) = Head(Chain(Cur, l))

\* PopFront has emptied one list while the other has elements
C15_Witness ==
  /\ last.op = "PopFront" /\ size_[last.l] = 0
  /\ \E m \in Lists : alive[m] /\ size_[m] = 2
\* C16: a list constructed from an initializer list s holds exactly the
\* elements of s in the same order, with size Len(s); for the empty s it is the
\* empty list.
C16_InitListKeepsOrder ==
  [][(last'.op = "InitListCtor" /\ ~last'.threw) =>
       LET l == last'.l
       IN /\ alive'[l]
          /\ Elems(Cur', l) = last'.vals
          /\ size_'[l] = Len(last'.vals)
          /\ last'.vals = <<>> => (IsEmpty(Cur', l) /\ begin(Cur', l) = end(Cur', l))
          /\ Cardinality(FreeNodes(Cur')) = Cardinality(FreeNodes(Cur)) - Len(last'.vals)]_vars

\* a list was constructed from { 2, 1 }
C16_Witness ==
  /\ last.op = "InitListCtor" /\ ~last.threw
  /\ last.vals = <<2, 1>> /\ size_[last.l] = 2
\* the next links that point at node n: sentinels of live lists and allocated nodes
Referrers(st, n) ==
  {Sentinel(l) : l \in {m \in Lists : st.alive[m] /\ st.head_[m] = n}}
    \cup {m \in Nodes : st.allocated[m] /\ st.next_node[m] = n}

\* C17: with several live lists, each allocated node is referenced by exactly
\* one next link, no node is reachable from the sentinels of two lists, and
\* every chain is acyclic: following next from a sentinel reaches null.
C17_OneOwnerNoCycle ==
  /\ \A n \in Nodes : allocated[n] => Cardinality(Referrers(Cur, n)) = 1
  /\ \A l \in Lists, m \in Lists :
       (alive[l] /\ alive[m] /\ l # m) =>
         Range(Chain(Cur, l)) \cap Range(Chain(Cur, m)) = {}
  /\ \A l \in Lists : alive[l] =>
       LET c == Chain(Cur, l)
       IN /\ Len(c) <= NumNodes
          /\ Cardinality(Range(c)) = Len(c)
          /\ \A i \in 1..Len(c) :
               /\ allocated[c[i]]
               /\ next_node[c[i]] = (IF i < Len(c) THEN c[i + 1] ELSE nullptr)

\* a = b has succeeded between two different lists and both hold an element
C17_Witness ==
  /\ last.op = "CopyAssign" /\ ~last.threw /\ last.l # last.other
  /\ size_[last.l] = 1 /\ size_[last.other] = 1
\* C18: with assert compiled in, every contract violation on a position is
\* stopped by an assertion before a null node is accessed or any state is
\* changed: EraseAfter(pos) for pos without a successor or pos == end(), and
\* advancing or dereferencing an end iterator.
C18_ViolationsStoppedByAssert ==
  (last.build = "debug" /\ last.op \in {"EraseAfter", "operator++", "operator*"}) =>
    last.res = "assert"
\* C19: PopFront() on an empty list never modifies the list.  With assert
\* compiled in the call fails the assertion size_ != 0; with NDEBUG it returns
\* with the sentinel's link still null and size_ still 0 (no wrap below zero),
\* no node was released, and no other list or node has changed.
C19_PopFrontOnEmptyIsNoOp ==
  [][(last'.op = "PopFront" /\ last'.build # "any") =>
       /\ size_[last'.l] = 0
       /\ head_' = head_ /\ size_' = size_ /\ alive' = alive
       /\ allocated' = allocated /\ value' = value /\ next_node' = next_node
       /\ head_'[last'.l] = nullptr /\ size_'[last'.l] = 0
       /\ deletion_counter' = 0 /\ ~fault'
       /\ last'.res = (IF last'.build = "debug" THEN "assert" ELSE "returned")]_vars

\* PopFront() has returned from an empty list in an NDEBUG build, next to a
\* list that holds elements
C19_Witness ==
  /\ last.op = "PopFront" /\ last.build = "NDEBUG" /\ last.res = "returned"
  /\ size_[last.l] = 0 /\ head_[last.l] = nullptr
  /\ \E m \in Lists : alive[m] /\ size_[m] > 0
\* C20: self-assignment a = a is a no-op for every list a: it does not throw,
\* no node is allocated or released, a's nodes keep their identities, values
\* and order, a's size is unchanged, and every iterator into a obtained before
\* the assignment still references a live node of a.
C20_SelfAssignIsNoOp ==
  [][(last'.op = "CopyAssign" /\ last'.l = last'.other) =>
       /\ ~last'.threw
       /\ allocated' = allocated /\ deletion_counter' = 0
       /\ Chain(Cur', last'.l) = Chain(Cur, last'.l)
       /\ Elems(Cur', last'.l) = Elems(Cur, last'.l)
       /\ size_'[last'.l] = size_[last'.l]
       /\ head_' = head_ /\ next_node' = next_node /\ value' = value
       /\ size_' = size_ /\ alive' = alive
       /\ \A p \in Range(Chain(Cur, last'.l)) :
            allocated'[p] /\ p \in Range(Chain(Cur', last'.l))]_vars

\* a = a has returned for a of two elements, with no free node left for a copy
C20_Witness ==
  /\ last.op = "CopyAssign" /\ last.l = last.other /\ ~last.threw
  /\ size_[last.l] = 2 /\ FreeNodes(Cur) = {}
====
